---- MODULE Spec2Model ----
(***************************************************************************)
(* A model of ariba/mapping.py: the bowtie2 index builder, the alignment   *)
(* runner (index, map, sort, index, cleanup), the alignment score          *)
(* aggregator and the SAM record to FASTQ converter.                       *)
(*                                                                         *)
(* The file system is a set of path strings.  Paths are built by string    *)
(* concatenation exactly as the code builds them.  Every external tool     *)
(* invocation goes through common.syscall and either succeeds or fails.    *)
(***************************************************************************)
EXTENDS Integers, Sequences, FiniteSets, TLC

VARIABLES files, pc, arg, loc, calls, unlinked, failed, rd, wr, files0,
          pipe, score, conv

\* The state of bowtie2_index and run_bowtie2.
mainVars == <<files, pc, arg, loc, calls, unlinked, failed, rd, wr, files0>>

\* The record stream of the mapping pipeline, the state of
\* get_total_alignment_score and the state of sam_to_fastq.
readerVars == <<pipe, score, conv>>

vars == <<mainVars, readerVars>>

\* ------------------------------------------------------------------ bounds

\* Largest thread count a caller passes.
MaxThreads == 5

\* SAM FLAG values have this many bits.
FlagBits == 4

\* Longest record stream the score aggregator reads.
MaxRecs == 3

\* Longest read sequence converted.
MaxSeqLen == 2

\* The callers of the model: caller 1 alone in Spec and SpecArgs, both in
\* SpecConc and SpecShared.
Procs == {1, 2}

\* ------------------------------------------------------- program constants

\* min(4, threads): the cap on the sort thread count.
SortThreadCap == 4

\* int(500 / threads): the memory the sort threads share, in MiB.
SortMemTotal == 500

\* The inputs every call reads; they are never written.
RefFa == "ref.fa"

ReadsFwd == "reads_1.fq"

ReadsRev == "reads_2.fq"

\* ------------------------------------------------------------------ helpers

Range(s) == {s[i] : i \in 1..Len(s)}

Min(a, b) == IF a <= b THEN a ELSE b

\* ['1', '2', '3', '4', 'rev.1', 'rev.2']
IndexSuffixes == <<"1", "2", "3", "4", "rev.1", "rev.2">>

\* [outprefix + '.' + x + '.bt2' for x in [...]]
ExpectedFiles(outprefix) ==
    [i \in 1..Len(IndexSuffixes) |-> outprefix \o "." \o IndexSuffixes[i] \o ".bt2"]

\* map_index = out_prefix + '.map_index'
MapIndex(out_prefix) == out_prefix \o ".map_index"

\* final_bam = out_prefix + '.bam'
FinalBam(out_prefix) == out_prefix \o ".bam"

\* A slip: the sort flag ignored, the pipeline always writes the final path.
IntermediateBamAlwaysFinal(out_prefix, sort) == FinalBam(out_prefix)

\* intermediate_bam = out_prefix + '.unsorted.bam' if sort else final_bam
IntermediateBam(out_prefix, sort) ==
    IF sort THEN out_prefix \o ".unsorted.bam" ELSE FinalBam(out_prefix)

\* A slip: only the four forward index files queued.
InitialCleanFilesForwardOnly(out_prefix, clean_index) ==
    IF clean_index THEN SubSeq(ExpectedFiles(MapIndex(out_prefix)), 1, 4) ELSE <<>>

\* clean_files = the six index files if clean_index else []
InitialCleanFiles(out_prefix, clean_index) ==
    IF clean_index THEN ExpectedFiles(MapIndex(out_prefix)) ELSE <<>>

\* A slip: one temporary prefix for every call.
SortTmpPrefixShared(out_prefix) == "tmp.samtool_sort"

\* '-T', out_prefix + '.tmp.samtool_sort'
SortTmpPrefix(out_prefix) == out_prefix \o ".tmp.samtool_sort"

\* The companion index samtools index writes next to the file it is given.
BamIndex(bam) == bam \o ".bai"

\* A slip: the cap forgotten.
SortThreadsUncapped(threads) == threads

\* threads = min(4, threads)
SortThreads(threads) == Min(SortThreadCap, threads)

\* thread_mem = int(500 / threads): the quotient truncated toward zero
\* (threads = 0 divides by zero, in the code as here).
ThreadMem(threads) ==
    IF threads > 0 THEN SortMemTotal \div threads ELSE -(SortMemTotal \div (-threads))

\* ------------------------------------------------------- command lines

NoCmd == [tool |-> "", threads |-> 0, mem |-> 0, filter |-> FALSE,
          inp |-> {}, outs |-> {}, tmp |-> {}, status |-> ""]

\* cmd of bowtie2_index: bowtie2-build -q ref_fa outprefix
BuildCmd(ref_fa, outprefix) ==
    [NoCmd EXCEPT !.tool = "bowtie2-build", !.inp = {ref_fa},
                  !.outs = Range(ExpectedFiles(outprefix))]

\* map_cmd: bowtie2 ... [| awk filter] | samtools view -bS -T ref_fa - > intermediate_bam
MapCmd(ref_fa, out_prefix, threads, sort, remove_both_unmapped) ==
    [NoCmd EXCEPT !.tool = "bowtie2", !.threads = threads,
                  !.filter = remove_both_unmapped,
                  !.inp = {ReadsFwd, ReadsRev, ref_fa}
                          \cup Range(ExpectedFiles(MapIndex(out_prefix))),
                  !.outs = {IntermediateBam(out_prefix, sort)}]

\* sort_cmd: samtools sort -@threads -m<thread_mem>M -o final_bam -O bam -T tmp intermediate_bam
SortCmd(out_prefix, threads, thread_mem, intermediate_bam) ==
    [NoCmd EXCEPT !.tool = "samtools sort", !.threads = threads, !.mem = thread_mem,
                  !.inp = {intermediate_bam},
                  !.outs = {FinalBam(out_prefix)},
                  !.tmp = {SortTmpPrefix(out_prefix)}]

\* index_cmd = samtools + ' index ' + final_bam
IndexCmd(out_prefix) ==
    [NoCmd EXCEPT !.tool = "samtools index", !.inp = {FinalBam(out_prefix)},
                  !.outs = {BamIndex(FinalBam(out_prefix))}]

\* ------------------------------------------------------------------ state

NoArg == [api |-> "", out_prefix |-> "", threads |-> 0, sort |-> FALSE,
          clean_index |-> FALSE, remove_both_unmapped |-> FALSE]

NoLoc == [clean_files |-> <<>>, map_cmd |-> NoCmd, threads |-> 0, i |-> 0,
          k |-> 0, written |-> {}]

\* The paths a call with this out_prefix can name.
PathsOf(out_prefix) ==
    Range(ExpectedFiles(MapIndex(out_prefix)))
        \cup {FinalBam(out_prefix), IntermediateBam(out_prefix, TRUE),
              BamIndex(FinalBam(out_prefix))}

\* No stream, no aggregation and no conversion under way.
NoPipe == [in |-> <<>>, filter |-> FALSE, awk |-> "", stages |-> <<>>, out |-> <<>>,
           pc |-> "idle"]

NoScore == [recs |-> <<>>, i |-> 0, total |-> 0, result |-> 0, pc |-> "idle"]

NoSam == [qname |-> "", is_read1 |-> FALSE, is_read2 |-> FALSE, is_reverse |-> FALSE,
          bytes |-> FALSE, seq |-> <<>>, qual |-> <<>>]

NoFastq == [kind |-> "", id |-> "", seq |-> <<>>, qual |-> <<>>, revcomped |-> FALSE,
            msg |-> ""]

NoConv == [sam |-> NoSam, out |-> NoFastq, pc |-> "idle"]

\* No call of bowtie2_index or run_bowtie2 under way.  files0 remembers the
\* directory as it is while nobody is calling: what the next call of a lone
\* caller finds.
IdleMain ==
    /\ pc = [p \in Procs |-> "idle"]
    /\ arg = [p \in Procs |-> NoArg]
    /\ loc = [p \in Procs |-> NoLoc]
    /\ calls = [p \in Procs |-> <<>>]
    /\ unlinked = [p \in Procs |-> <<>>]
    /\ failed = [p \in Procs |-> ""]
    /\ rd = [p \in Procs |-> {}]
    /\ wr = [p \in Procs |-> {}]
    /\ files0 = files

\* Nobody is calling; the directory holds some of the files in F.
InitMain(F) ==
    /\ files \in SUBSET F
    /\ IdleMain
    /\ pipe = NoPipe /\ score = NoScore /\ conv = NoConv

\* ------------------------------------------------------------- common.syscall

\* The positions of a caller blocked in common.syscall while its tool runs.
RunningPcs == {"build_run", "map_run", "sort_run", "samindex_run"}

\* The invocation the caller is blocked in.
Current(p) == calls[p][Len(calls[p])]

\* common.syscall(cmd) starts the tool and blocks; other callers run meanwhile.
SyscallStart(p, cmd, running) ==
    /\ calls' = [calls EXCEPT ![p] = Append(@, [cmd EXCEPT !.status = "running"])]
    /\ rd' = [rd EXCEPT ![p] = @ \cup cmd.inp]
    /\ wr' = [wr EXCEPT ![p] = @ \cup cmd.outs \cup cmd.tmp]
    /\ pc' = [pc EXCEPT ![p] = running]
    /\ UNCHANGED <<files, failed>>

\* What a running tool has still to write.
Leftovers(outs, written) == outs \ written

\* The running tool of p creates (or overwrites) one of its output files; a
\* tool with several outputs writes them one after the other, in any order.
ToolWrites(p) ==
    /\ pc[p] \in RunningPcs
    /\ \E fname \in Leftovers(Current(p).outs, loc[p].written) :
          /\ files' = files \cup {fname}
          /\ loc' = [loc EXCEPT ![p].written = @ \cup {fname}]
    /\ UNCHANGED <<pc, arg, calls, unlinked, failed, rd, wr, files0>>
    /\ UNCHANGED readerVars

\* A slip: the sort branch never taken.
AfterMapNeverSort(sort) == "clean"

\* if sort: ... (line 87): what follows the mapping pipeline.
AfterMap(sort) == IF sort THEN "sort" ELSE "clean"

\* clean_files.append(intermediate_bam) (line 103)
QueueIntermediate(clean_files, intermediate_bam) == Append(clean_files, intermediate_bam)

\* The statement the caller goes on with when the invocation it is blocked in
\* succeeds.
Continuation(p) ==
    CASE pc[p] = "build_run" -> (IF arg[p].api = "bowtie2_index" THEN "done" ELSE "map")
      [] pc[p] = "map_run" -> AfterMap(arg[p].sort)
      [] pc[p] = "sort_run" -> "samindex"
      [] pc[p] = "samindex_run" -> "clean"

\* The tool exits and common.syscall returns, or ends the program (sys.exit)
\* on a non-zero exit status, so the caller's next statement never runs.  A
\* tool that succeeds has written all its outputs; one that fails has written
\* any part of them.  After the index invocation of run_bowtie2 comes
\* clean_files.append(intermediate_bam) (line 103).
SyscallReturn(p) ==
    /\ pc[p] \in RunningPcs
    /\ \E ok \in BOOLEAN :
          /\ ok => loc[p].written = Current(p).outs
          /\ calls' = [calls EXCEPT ![p][Len(calls[p])].status =
                          IF ok THEN "ok" ELSE "failed"]
          /\ failed' = [failed EXCEPT ![p] = IF ok THEN @ ELSE Current(p).tool]
          /\ pc' = [pc EXCEPT ![p] = IF ok THEN Continuation(p) ELSE "error"]
          /\ loc' = [loc EXCEPT ![p].written = {},
                                ![p].clean_files =
                                    IF ok /\ pc[p] = "samindex_run"
                                    THEN QueueIntermediate(@,
                                            IntermediateBam(arg[p].out_prefix, arg[p].sort))
                                    ELSE @]
    /\ UNCHANGED <<files, arg, unlinked, rd, wr, files0>>
    /\ UNCHANGED readerVars

\* ------------------------------------------------------------- bowtie2_index

\* A direct call of bowtie2_index(ref_fa, outprefix).
CallBowtie2Index(p, prefixes) ==
    /\ pc[p] = "idle"
    /\ \E outprefix \in prefixes :
          arg' = [arg EXCEPT ![p] = [NoArg EXCEPT !.api = "bowtie2_index",
                                                  !.out_prefix = outprefix]]
    /\ pc' = [pc EXCEPT ![p] = "index"]
    /\ UNCHANGED files0
    /\ UNCHANGED <<files, loc, calls, unlinked, failed, rd, wr>>
    /\ UNCHANGED readerVars

\* The prefix bowtie2_index is given: its own argument, or map_index in run_bowtie2.
IndexPrefix(a) ==
    IF a.api = "bowtie2_index" THEN a.out_prefix ELSE MapIndex(a.out_prefix)

\* A slip: the loop left after the first file that exists.
LoopDoneAfterFirst(k, expected) == k >= 1

\* The for loop over expected_files has run out of files after k of them.
LoopDone(k, expected) == k >= Len(expected)

\* One turn of the existence loop (lines 13-16): os.path.exists on the next
\* expected file.  A missing file sets file_missing and breaks; when the loop
\* runs out of files bowtie2_index returns (lines 18-19).
Probe(p) ==
    /\ pc[p] = "index"
    /\ LET expected == ExpectedFiles(IndexPrefix(arg[p]))
           filename == expected[loc[p].k + 1]
       IN  /\ rd' = [rd EXCEPT ![p] = @ \cup {filename}]
           /\ IF filename \in files
              THEN /\ loc' = [loc EXCEPT ![p].k =
                                 IF LoopDone(loc[p].k + 1, expected) THEN 0 ELSE @ + 1]
                   /\ pc' = [pc EXCEPT ![p] =
                                 IF LoopDone(loc[p].k + 1, expected)
                                 THEN (IF arg[p].api = "bowtie2_index" THEN "done" ELSE "map")
                                 ELSE "index"]
              ELSE /\ loc' = [loc EXCEPT ![p].k = 0]
                   /\ pc' = [pc EXCEPT ![p] = "build"]
    /\ UNCHANGED <<files, arg, calls, unlinked, failed, wr, files0>>
    /\ UNCHANGED readerVars

\* common.syscall(cmd) of bowtie2_index (lines 21-28) starts bowtie2-build.
Build(p) ==
    /\ pc[p] = "build"
    /\ SyscallStart(p, BuildCmd(RefFa, IndexPrefix(arg[p])), "build_run")
    /\ UNCHANGED <<arg, loc, unlinked, files0>>
    /\ UNCHANGED readerVars

\* --------------------------------------------------------------- run_bowtie2

\* The call and the statements before the first invocation (lines 48-82).
CallRunBowtie2(p, prefixes, threadCounts, filterFlags) ==
    /\ pc[p] = "idle"
    /\ \E out_prefix \in prefixes, threads \in threadCounts,
          sort \in BOOLEAN, clean_index \in BOOLEAN,
          remove_both_unmapped \in filterFlags :
          /\ arg' = [arg EXCEPT ![p] =
                        [api |-> "run_bowtie2", out_prefix |-> out_prefix,
                         threads |-> threads, sort |-> sort,
                         clean_index |-> clean_index,
                         remove_both_unmapped |-> remove_both_unmapped]]
          /\ loc' = [loc EXCEPT ![p] =
                        [NoLoc EXCEPT
                           !.clean_files = InitialCleanFiles(out_prefix, clean_index),
                           !.map_cmd = MapCmd(RefFa, out_prefix, threads, sort,
                                              remove_both_unmapped),
                           !.threads = threads]]
    /\ pc' = [pc EXCEPT ![p] = "index"]
    /\ UNCHANGED files0
    /\ UNCHANGED <<files, calls, unlinked, failed, rd, wr>>
    /\ UNCHANGED readerVars

\* common.syscall(map_cmd) (line 85) starts the mapping pipeline.
Map(p) ==
    /\ pc[p] = "map"
    /\ SyscallStart(p, loc[p].map_cmd, "map_run")
    /\ UNCHANGED <<arg, loc, unlinked, files0>>
    /\ UNCHANGED readerVars

\* threads = min(4, threads); thread_mem = ...; common.syscall(sort_cmd)
\* (lines 88-101) starts samtools sort.
Sort(p) ==
    /\ pc[p] = "sort"
    /\ LET threads == SortThreads(loc[p].threads)
           cmd == SortCmd(arg[p].out_prefix, threads, ThreadMem(threads),
                          IntermediateBam(arg[p].out_prefix, arg[p].sort))
       IN  /\ loc' = [loc EXCEPT ![p].threads = threads]
           /\ SyscallStart(p, cmd, "sort_run")
    /\ UNCHANGED <<arg, unlinked, files0>>
    /\ UNCHANGED readerVars

\* common.syscall(index_cmd) (line 102) starts samtools index.
SamIndex(p) ==
    /\ pc[p] = "samindex"
    /\ SyscallStart(p, IndexCmd(arg[p].out_prefix), "samindex_run")
    /\ UNCHANGED <<arg, loc, unlinked, files0>>
    /\ UNCHANGED readerVars

\* A slip: a file that is not there passed over as if it had been deleted.
UnlinkIgnoreMissing(fname, dir, permitted) ==
    IF fname \notin dir THEN [raised |-> FALSE, dir |-> dir]
    ELSE IF permitted THEN [raised |-> FALSE, dir |-> dir \ {fname}]
    ELSE [raised |-> TRUE, dir |-> dir]

\* os.unlink(fname) (line 106) on directory dir: the file is removed, or an
\* exception is raised and the directory is as it was, when the file is
\* missing or may not be removed.
Unlink(fname, dir, permitted) ==
    IF fname \in dir /\ permitted THEN [raised |-> FALSE, dir |-> dir \ {fname}]
    ELSE [raised |-> TRUE, dir |-> dir]

\* One turn of: for fname in clean_files: os.unlink(fname) (lines 105-106).
\* Nothing catches the exception of os.unlink: it ends run_bowtie2.
Clean(p) ==
    /\ pc[p] = "clean"
    /\ IF loc[p].i >= Len(loc[p].clean_files)
       THEN /\ pc' = [pc EXCEPT ![p] = "done"]
            /\ UNCHANGED <<files, loc, unlinked, failed, wr>>
       ELSE LET fname == loc[p].clean_files[loc[p].i + 1]
            IN  \E permitted \in BOOLEAN :
                   IF ~Unlink(fname, files, permitted).raised
                   THEN /\ files' = Unlink(fname, files, permitted).dir
                        /\ unlinked' = [unlinked EXCEPT ![p] = Append(@, fname)]
                        /\ loc' = [loc EXCEPT ![p].i = @ + 1]
                        /\ wr' = [wr EXCEPT ![p] = @ \cup {fname}]
                        /\ UNCHANGED <<pc, failed>>
                   ELSE /\ pc' = [pc EXCEPT ![p] = "error"]
                        /\ failed' = [failed EXCEPT ![p] = "unlink"]
                        /\ wr' = [wr EXCEPT ![p] = @ \cup {fname}]
                        /\ UNCHANGED <<files, loc, unlinked>>
    /\ UNCHANGED <<arg, calls, rd, files0>>
    /\ UNCHANGED readerVars

\* The call is over (returned or raised); the caller may call again, and
\* finds the directory as it is now.
Return(p) ==
    /\ pc[p] \in {"done", "error"}
    /\ pc' = [pc EXCEPT ![p] = "idle"]
    /\ arg' = [arg EXCEPT ![p] = NoArg]
    /\ loc' = [loc EXCEPT ![p] = NoLoc]
    /\ calls' = [calls EXCEPT ![p] = <<>>]
    /\ unlinked' = [unlinked EXCEPT ![p] = <<>>]
    /\ failed' = [failed EXCEPT ![p] = ""]
    /\ rd' = [rd EXCEPT ![p] = {}]
    /\ wr' = [wr EXCEPT ![p] = {}]
    /\ files0' = files
    /\ UNCHANGED files
    /\ UNCHANGED readerVars

\* ------------------------------------------------------------ specifications

\* One caller, calling again and again with out_prefix "x" (default thread
\* count and filter flag) on a directory that may already hold any of the
\* files such a call names.
Init == InitMain(PathsOf("x"))

Next ==
    \/ CallBowtie2Index(1, {MapIndex("x")})
    \/ CallRunBowtie2(1, {"x"}, {1}, {FALSE})
    \/ Probe(1)
    \/ Build(1)
    \/ Map(1)
    \/ Sort(1)
    \/ SamIndex(1)
    \/ ToolWrites(1)
    \/ SyscallReturn(1)
    \/ Clean(1)
    \/ Return(1)

Spec == Init /\ [][Next]_vars

\* One call on a fresh directory, over the thread counts and filter flags.
InitArgs == InitMain({})

NextArgs ==
    \/ CallRunBowtie2(1, {"x"}, 1..MaxThreads, BOOLEAN)
    \/ Probe(1)
    \/ Build(1)
    \/ Map(1)
    \/ Sort(1)
    \/ SamIndex(1)
    \/ ToolWrites(1)
    \/ SyscallReturn(1)
    \/ Clean(1)

SpecArgs == InitArgs /\ [][NextArgs]_vars

\* The out_prefix values of two concurrent callers with distinct prefixes:
\* caller 1 uses "x", caller 2 a prefix unrelated to it or one that extends
\* it by a suffix the code itself appends.
ConcPrefixes(p) ==
    IF p = 1 THEN {"x"} ELSE {"y", "x.unsorted", "x.bam"}

\* Two callers, one call each, interleaved step by step on a fresh directory:
\* between any two steps of one caller (an os.path.exists, the start of a
\* tool, what the tool writes, its exit, an os.unlink) the other may run.
InitConc == InitMain({})

NextConc ==
    \E p \in Procs :
        \/ CallRunBowtie2(p, ConcPrefixes(p), {1}, {FALSE})
        \/ Probe(p)
        \/ Build(p)
        \/ Map(p)
        \/ Sort(p)
        \/ SamIndex(p)
        \/ ToolWrites(p)
        \/ SyscallReturn(p)
        \/ Clean(p)

SpecConc == InitConc /\ [][NextConc]_vars

\* Two callers, one call each, both with out_prefix "x", interleaved step by
\* step on a fresh directory: each probes, builds, reads and deletes the files
\* of the other.
InitShared == InitMain({})

NextShared ==
    \E p \in Procs :
        \/ CallRunBowtie2(p, {"x"}, {1}, {FALSE})
        \/ Probe(p)
        \/ Build(p)
        \/ Map(p)
        \/ Sort(p)
        \/ SamIndex(p)
        \/ ToolWrites(p)
        \/ SyscallReturn(p)
        \/ Clean(p)

SpecShared == InitShared /\ [][NextShared]_vars

\* ------------------------------------------- the filter stage of map_cmd

\* The program the name 'awk' runs on the machine: the code names no
\* particular one.  and() is an extension of gawk; mawk does not define it.
AwkFlavours == {"gawk", "mawk"}

AndDefined(awk) == awk = "gawk"

\* and(a, b) where it is defined: the bitwise AND of two non-negative integers.
RECURSIVE AwkAnd(_, _)
AwkAnd(a, b) ==
    IF a = 0 \/ b = 0 THEN 0
    ELSE (a % 2) * (b % 2) + 2 * AwkAnd(a \div 2, b \div 2)

\* awk ' !(and($2,4)) || !(and($2,8)) ': the pattern that prints a record.
AwkKeep(flag) == AwkAnd(flag, 4) = 0 \/ AwkAnd(flag, 8) = 0

\* What the awk stage prints: the records its pattern keeps, or, where and()
\* is not defined, nothing (awk rejects the program and exits with status 2).
AwkStage(awk, recs) == IF AndDefined(awk) THEN SelectSeq(recs, AwkKeep) ELSE <<>>

\* The stages of the shell pipeline map_cmd composes (lines 72-80).
Stages(cmd) ==
    <<"bowtie2">> \o (IF cmd.filter THEN <<"awk">> ELSE <<>>) \o <<"samtools view">>

\* The records that reach the last stage (the conversion), given what the
\* aligner emits; a record is its FLAG field.
RECURSIVE Through(_, _, _)
Through(stages, awk, recs) ==
    IF Len(stages) <= 1 THEN recs
    ELSE Through(Tail(stages), awk,
                 IF Head(stages) = "awk" THEN AwkStage(awk, recs) ELSE recs)

Flags == 0..(2^FlagBits - 1)

\* The aligner is about to emit the two records of one pair, on a machine
\* with one or the other awk.
InitFilter ==
    /\ files = {} /\ IdleMain
    /\ \E flag1 \in Flags, flag2 \in Flags, remove_both_unmapped \in BOOLEAN,
          awk \in AwkFlavours :
          pipe = [NoPipe EXCEPT !.in = <<flag1, flag2>>, !.awk = awk,
                                !.filter = remove_both_unmapped, !.pc = "ready"]
    /\ score = NoScore /\ conv = NoConv

\* The pipeline of map_cmd runs over the stream.
RunPipeline ==
    /\ pipe.pc = "ready"
    /\ LET cmd == MapCmd(RefFa, "x", 1, FALSE, pipe.filter)
       IN  pipe' = [pipe EXCEPT !.stages = Stages(cmd),
                                !.out = Through(Stages(cmd), pipe.awk, pipe.in),
                                !.pc = "done"]
    /\ UNCHANGED <<mainVars, score, conv>>

NextFilter == RunPipeline

SpecFilter == InitFilter /\ [][NextFilter]_vars

\* ------------------------------------------------ get_total_alignment_score

\* A record is its set of optional tags, each a <<name, value>> pair.
AsValues == {-1, 0, 2}

SamRecords ==
    {{}, {<<"NM", 1>>}} \cup {{<<"AS", v>>} : v \in AsValues}
        \cup {{<<"AS", v>>, <<"NM", 1>>} : v \in AsValues}

\* sam.opt(tag): the tag's value, or KeyError when the record lacks the tag.
Opt(sam, tag) ==
    IF \E t \in sam : t[1] = tag
    THEN [ok |-> TRUE, val |-> (CHOOSE t \in sam : t[1] = tag)[2]]
    ELSE [ok |-> FALSE, val |-> 0]

\* A slip: = for +=.
ScoreIterAssign(total, sam) ==
    LET r == Opt(sam, "AS") IN IF r.ok THEN r.val ELSE total

\* try: total += sam.opt('AS')  except: pass   (lines 114-117)
ScoreIter(total, sam) ==
    LET r == Opt(sam, "AS") IN IF r.ok THEN total + r.val ELSE total

InitScore ==
    /\ files = {} /\ IdleMain
    /\ \E n \in 0..MaxRecs : \E recs \in [1..n -> SamRecords] :
          score = [NoScore EXCEPT !.recs = recs, !.pc = "loop"]
    /\ pipe = NoPipe /\ conv = NoConv

\* One turn of: for sam in sam_reader.fetch(until_eof=True)
ScoreStep ==
    /\ score.pc = "loop" /\ score.i < Len(score.recs)
    /\ score' = [score EXCEPT !.total = ScoreIter(@, score.recs[score.i + 1]),
                              !.i = @ + 1]
    /\ UNCHANGED <<mainVars, pipe, conv>>

\* End of stream: return total
ScoreReturn ==
    /\ score.pc = "loop" /\ score.i >= Len(score.recs)
    /\ score' = [score EXCEPT !.result = score.total, !.pc = "returned"]
    /\ UNCHANGED <<mainVars, pipe, conv>>

NextScore == ScoreStep \/ ScoreReturn

SpecScore == InitScore /\ [][NextScore]_vars

\* ------------------------------------------------------------ sam_to_fastq

\* common.decode: bytes become text, text is returned as it is.  Bytes are
\* sequences of ASCII codes, text is a sequence of characters.
Chr(c) ==
    CASE c = 65 -> "A" [] c = 67 -> "C" [] c = 71 -> "G" [] c = 84 -> "T"
      [] c = 73 -> "I" [] c = 35 -> "#"

Decode(is_bytes, x) == IF is_bytes THEN [i \in 1..Len(x) |-> Chr(x[i])] ELSE x

Complement(b) == CASE b = "A" -> "T" [] b = "T" -> "A" [] b = "C" -> "G" [] b = "G" -> "C"

Reverse(x) == [i \in 1..Len(x) |-> x[Len(x) + 1 - i]]

\* pyfastaq's Fastq.revcomp: bases complemented and reversed, qualities reversed.
Revcomp(fq) ==
    [fq EXCEPT !.seq = Reverse([i \in 1..Len(fq.seq) |-> Complement(fq.seq[i])]),
               !.qual = Reverse(fq.qual), !.revcomped = TRUE]

\* A slip: the second-of-pair flag tested first.
PairSuffixRead2First(is_read1, is_read2) ==
    IF is_read2 THEN "/2" ELSE IF is_read1 THEN "/1" ELSE ""

\* if sam.is_read1: '/1' elif sam.is_read2: '/2' else: raise   ("" stands for the raise)
PairSuffix(is_read1, is_read2) ==
    IF is_read1 THEN "/1" ELSE IF is_read2 THEN "/2" ELSE ""

\* sam_to_fastq, whole: the Fastq returned or the Error raised.
SamToFastq(sam) ==
    LET suffix == PairSuffix(sam.is_read1, sam.is_read2)
        name == sam.qname \o suffix
        fq == [NoFastq EXCEPT !.kind = "fastq", !.id = name,
                              !.seq = Decode(sam.bytes, sam.seq),
                              !.qual = Decode(sam.bytes, sam.qual)]
    IN  IF suffix = ""
        THEN [NoFastq EXCEPT !.kind = "error",
                 !.msg = "Read " \o sam.qname
                         \o " must be first or second of pair according to flag. Cannot continue"]
        ELSE IF sam.is_reverse THEN Revcomp(fq) ELSE fq

BaseCodes == {65, 67, 71, 84}

QualCodes == {73, 35}

InitFastq ==
    /\ files = {} /\ IdleMain
    /\ \E qname \in {"readA", "readB"}, is_read1 \in BOOLEAN, is_read2 \in BOOLEAN,
          is_reverse \in BOOLEAN, is_bytes \in BOOLEAN, n \in 0..MaxSeqLen :
          \E seq \in [1..n -> BaseCodes], qual \in [1..n -> QualCodes] :
             conv = [NoConv EXCEPT
                       !.sam = [qname |-> qname, is_read1 |-> is_read1,
                                is_read2 |-> is_read2, is_reverse |-> is_reverse,
                                bytes |-> is_bytes,
                                seq |-> IF is_bytes THEN seq ELSE Decode(TRUE, seq),
                                qual |-> IF is_bytes THEN qual ELSE Decode(TRUE, qual)],
                       !.pc = "called"]
    /\ pipe = NoPipe /\ score = NoScore

Convert ==
    /\ conv.pc = "called"
    /\ conv' = [conv EXCEPT !.out = SamToFastq(conv.sam), !.pc = "done"]
    /\ UNCHANGED <<mainVars, pipe, score>>

NextFastq == Convert

SpecFastq == InitFastq /\ [][NextFastq]_vars

\* ------------------------------------------------------------ claims of Spec

\* The tools invoked so far in this call, in order.
Tools(p) == [i \in 1..Len(calls[p]) |-> calls[p][i].tool]

\* How many invocations of one tool this call has made.
Count(p, tool) == Cardinality({i \in 1..Len(calls[p]) : calls[p][i].tool = tool})

IsPrefix(s, t) == Len(s) <= Len(t) /\ \A i \in 1..Len(s) : s[i] = t[i]

Running(p) == arg[p].api = "run_bowtie2"

\* The six index files of the call of p.
IndexFiles(p) == Range(ExpectedFiles(IndexPrefix(arg[p])))

Unsorted(p) == arg[p].out_prefix \o ".unsorted.bam"

Final(p) == arg[p].out_prefix \o ".bam"

\* bowtie2_index has just returned or failed, and nothing has run since.
PostIndex(p) ==
    \/ arg[p].api = "bowtie2_index" /\ pc[p] \in {"done", "error"}
    \/ Running(p) /\ (pc[p] = "map" \/ (pc[p] = "error" /\ failed[p] = "bowtie2-build"))

\* C1: whatever subset of the six expected index files is present before the
\* call, bowtie2_index invokes the build tool exactly once when at least one
\* is missing (and after a successful build all six exist), and invokes
\* nothing and changes no file when all six are present.
C1_BuildOnceIffMissing ==
    PostIndex(1) =>
        /\ IndexFiles(1) \subseteq files0 =>
              Count(1, "bowtie2-build") = 0 /\ Len(calls[1]) = 0 /\ files = files0
        /\ ~(IndexFiles(1) \subseteq files0) =>
              /\ Count(1, "bowtie2-build") = 1 /\ Len(calls[1]) = 1
              /\ pc[1] # "error" => IndexFiles(1) \subseteq files

\* A direct call found some but not all index files, built once, and all six exist.
C1_Witness ==
    /\ arg[1].api = "bowtie2_index" /\ pc[1] = "done"
    /\ IndexFiles(1) \cap files0 # {}
    /\ ~(IndexFiles(1) \subseteq files0)
    /\ Count(1, "bowtie2-build") = 1
    /\ IndexFiles(1) \subseteq files

\* The invocations of a successful run with sort=False: the pipeline writes
\* the final path, and there is no sort and no index invocation.
UnsortedRunShape(p) ==
    /\ Count(p, "bowtie2") = 1
    /\ \A i \in 1..Len(calls[p]) :
          calls[p][i].tool = "bowtie2" => calls[p][i].outs = {Final(p)}
    /\ Count(p, "samtools sort") = 0 /\ Count(p, "samtools index") = 0
    /\ Final(p) \in files

\* The invocations of a successful run with sort=True: the pipeline writes the
\* '.unsorted.bam' path, then one sort, then one index, the intermediate is
\* deleted, the final file and its companion index exist.
SortedRunShape(p) ==
    /\ Len(calls[p]) >= 3
    /\ SubSeq(Tools(p), Len(calls[p]) - 2, Len(calls[p]))
          = <<"bowtie2", "samtools sort", "samtools index">>
    /\ Count(p, "bowtie2") = 1
    /\ Count(p, "samtools sort") = 1 /\ Count(p, "samtools index") = 1
    /\ calls[p][Len(calls[p]) - 2].outs = {Unsorted(p)}
    /\ calls[p][Len(calls[p]) - 1].inp = {Unsorted(p)}
    /\ calls[p][Len(calls[p]) - 1].outs = {Final(p)}
    /\ Unsorted(p) \notin files
    /\ unlinked[p] # <<>> /\ unlinked[p][Len(unlinked[p])] = Unsorted(p)
    /\ Final(p) \in files /\ (Final(p) \o ".bai") \in files

\* C2 as stated: after a successful run with sort=False no '.unsorted.bam'
\* remains; with sort=True the sorted shape holds.
C2_AsStated ==
    (Running(1) /\ pc[1] = "done") =>
        IF arg[1].sort THEN SortedRunShape(1)
        ELSE UnsortedRunShape(1) /\ Unsorted(1) \notin files

\* C2, amended: after a successful run with sort=False the pipeline wrote the
\* final path directly, no sort or index invocation occurred, and the run
\* neither created nor deleted '.unsorted.bam' (it is on disk only if it was
\* there before the call); with sort=True the pipeline wrote '.unsorted.bam',
\* then exactly one sort and one index invocation occurred in that order, the
\* intermediate was deleted, and the final file and its index exist.
C2_SortShapes ==
    (Running(1) /\ pc[1] = "done") =>
        IF arg[1].sort THEN SortedRunShape(1)
        ELSE /\ UnsortedRunShape(1)
             /\ Unsorted(1) \in files <=> Unsorted(1) \in files0
             /\ Unsorted(1) \notin wr[1]

\* A sorted run succeeded where neither BAM file existed before.
C2_Witness ==
    /\ Running(1) /\ pc[1] = "done" /\ arg[1].sort
    /\ Final(1) \notin files0 /\ Unsorted(1) \notin files0
    /\ Final(1) \in files /\ Unsorted(1) \notin files

\* C3: after a successful run, clean_index=True leaves none of the six index
\* files (also those that existed before the call); clean_index=False leaves
\* all six and the run deletes none of them.
C3_IndexCleanup ==
    (Running(1) /\ pc[1] = "done") =>
        IF arg[1].clean_index
        THEN IndexFiles(1) \cap files = {}
        ELSE IndexFiles(1) \subseteq files /\ IndexFiles(1) \cap Range(unlinked[1]) = {}

\* A cleaning run succeeded on a directory that already held all six index files.
C3_Witness ==
    /\ Running(1) /\ pc[1] = "done" /\ arg[1].clean_index
    /\ IndexFiles(1) \subseteq files0
    /\ IndexFiles(1) \cap files = {}

\* The invocations a complete run makes, in order.
FullOrder(p) ==
    (IF IndexFiles(p) \subseteq files0 THEN <<>> ELSE <<"bowtie2-build">>)
        \o <<"bowtie2">>
        \o (IF arg[p].sort THEN <<"samtools sort", "samtools index">> ELSE <<>>)

\* C4: the invocations of a run happen in the order build (only when an index
\* file is missing), mapping pipeline, sort, index, each after the previous
\* one succeeded; a failed invocation is the last one of the run (nothing
\* later, no retry), the run is then in error with no file deleted, and what
\* was on disk or produced by the earlier steps is still there.
C4_OrderAndFailure ==
    Running(1) =>
        /\ IsPrefix(Tools(1), FullOrder(1))
        /\ pc[1] \in {"clean", "done"} => Tools(1) = FullOrder(1)
        /\ \A i \in 1..Len(calls[1]) :
              /\ i < Len(calls[1]) => calls[1][i].status = "ok"
              /\ calls[1][i].status = "running" => pc[1] \in RunningPcs
              /\ calls[1][i].status = "failed" =>
                    /\ pc[1] = "error" /\ failed[1] = calls[1][i].tool
                    /\ unlinked[1] = <<>>
                    /\ files0 \subseteq files
                    /\ \A j \in 1..(i - 1) : calls[1][j].outs \subseteq files
        /\ (pc[1] = "error" /\ failed[1] # "unlink") =>
              calls[1] # <<>> /\ calls[1][Len(calls[1])].status = "failed"

\* The sort failed after a build and the pipeline: the index files and the
\* intermediate BAM they produced are on disk, nothing was deleted.
C4_Witness ==
    /\ Running(1) /\ pc[1] = "error" /\ failed[1] = "samtools sort"
    /\ Tools(1) = <<"bowtie2-build", "bowtie2", "samtools sort">>
    /\ Unsorted(1) \notin files0 /\ Unsorted(1) \in files
    /\ IndexFiles(1) \subseteq files
    /\ arg[1].clean_index /\ unlinked[1] = <<>>

\* The deletion queue of a run: the six index files when clean_index is set,
\* then the intermediate when sort is set.
Queue(p) ==
    (IF arg[p].clean_index THEN ExpectedFiles(MapIndex(arg[p].out_prefix)) ELSE <<>>)
        \o (IF arg[p].sort THEN <<Unsorted(p)>> ELSE <<>>)

\* -------------------------------------------------------- claims of SpecArgs

\* C10: with sort requested and t >= 1 threads, the sort invocation uses
\* s = min(4, t) threads and 500 div s MiB per thread, computed from the capped
\* s: one of 500, 250, 166, 125, never below 125, s times it never above 500;
\* the aligner invocation uses the uncapped t.
C10_SortThreadsAndMemory ==
    (Running(1) /\ arg[1].threads >= 1) =>
        \A i \in 1..Len(calls[1]) :
            LET c == calls[1][i]
                t == arg[1].threads
            IN  /\ c.tool = "bowtie2" => c.threads = t
                /\ c.tool = "samtools sort" =>
                      /\ c.threads = (IF t >= 4 THEN 4 ELSE t)
                      /\ c.mem \in {500, 250, 166, 125}
                      /\ c.mem >= 125
                      /\ c.threads * c.mem <= 500
                      /\ 500 < c.threads * (c.mem + 1)

\* A sort was invoked for a caller that asked for more than four threads.
C10_Witness ==
    /\ Running(1) /\ arg[1].threads > 4
    /\ \E i \in 1..Len(calls[1]) :
          /\ calls[1][i].tool = "samtools sort"
          /\ calls[1][i].threads = 4 /\ calls[1][i].mem = 125
    /\ \E i \in 1..Len(calls[1]) :
          calls[1][i].tool = "bowtie2" /\ calls[1][i].threads = arg[1].threads

\* -------------------------------------------------------- claims of SpecConc

\* What p creates, overwrites or deletes is nothing q reads, creates or deletes.
Apart(p, q) == wr[p] \cap (rd[q] \cup wr[q]) = {}

\* The outputs a finished call guarantees are on disk.
Intact(p) ==
    pc[p] = "done" =>
        /\ Final(p) \in files
        /\ arg[p].sort => (Final(p) \o ".bai") \in files
        /\ ~arg[p].clean_index => IndexFiles(p) \subseteq files

BothRunning == Running(1) /\ Running(2) /\ arg[1].out_prefix # arg[2].out_prefix

\* C5 as stated: for every pair of distinct out_prefix values the paths of the
\* two calls are disjoint and neither clobbers or removes a file of the other.
C5_AsStated ==
    BothRunning => Apart(1, 2) /\ Apart(2, 1) /\ Intact(1) /\ Intact(2)

\* Neither out_prefix is the other followed by '.unsorted'.
NotUnsortedOfEachOther ==
    /\ arg[1].out_prefix # arg[2].out_prefix \o ".unsorted"
    /\ arg[2].out_prefix # arg[1].out_prefix \o ".unsorted"

\* C5, amended: two concurrent calls with distinct out_prefix values, neither
\* of which is the other followed by '.unsorted', touch disjoint paths for
\* every combination of the sort and clean_index flags, and in no interleaving
\* does one clobber or remove a file of the other.
C5_DisjointPaths ==
    (BothRunning /\ NotUnsortedOfEachOther) =>
        Apart(1, 2) /\ Apart(2, 1) /\ Intact(1) /\ Intact(2)

\* Both calls sorted, cleaned and finished, one on "x" and one on "x.bam".
C5_Witness ==
    /\ BothRunning /\ pc[1] = "done" /\ pc[2] = "done"
    /\ arg[1].sort /\ arg[2].sort /\ arg[1].clean_index /\ arg[2].clean_index
    /\ arg[2].out_prefix = "x.bam"
    /\ Unsorted(1) \in wr[1] /\ Unsorted(2) \in wr[2]

\* ------------------------------------------------------ claims of SpecShared

\* Every invocation of the run was made and succeeded: the last ones are the
\* mapping pipeline and, with sort, the sort and the index.
Completed(p) ==
    /\ \A i \in 1..Len(calls[p]) : calls[p][i].status = "ok"
    /\ LET last == <<"bowtie2">>
                     \o (IF arg[p].sort THEN <<"samtools sort", "samtools index">> ELSE <<>>)
       IN  /\ Len(calls[p]) >= Len(last)
           /\ SubSeq(Tools(p), Len(calls[p]) - Len(last) + 1, Len(calls[p])) = last

\* The files queued after the one the cleanup of p failed at.
QueuedAfterFailure(p) ==
    {Queue(p)[k] : k \in (Len(unlinked[p]) + 2)..Len(Queue(p))}

\* What holds of the cleanup of p in every state, but for the fate of the
\* files queued after a failure: the deletions so far are the head of the
\* queue, a finished run has deleted the whole queue (a file of it is on disk
\* only if another run wrote it since), and a run that failed
\* in os.unlink is in error, short of the end of the queue, with every
\* invocation made and successful.
CleanupInOrder(p) ==
    /\ IsPrefix(unlinked[p], Queue(p))
    /\ pc[p] = "clean" =>
          loc[p].clean_files = Queue(p) /\ loc[p].i = Len(unlinked[p])
    /\ pc[p] = "done" =>
          /\ unlinked[p] = Queue(p)
          /\ \A fname \in Range(Queue(p)) :
                fname \notin files \/ \E q \in Procs \ {p} : fname \in wr[q]
    /\ failed[p] = "unlink" =>
          /\ pc[p] = "error"
          /\ Completed(p)
          /\ Len(unlinked[p]) < Len(Queue(p))

\* One turn of the cleanup of p with a file still queued: the file was on
\* disk and is deleted and recorded, or (the file missing or not) the run ends
\* in error at it with the directory and the record as they were.  A missing
\* file leaves only the second.
CleanupTurn(p) ==
    (/\ Running(p) /\ pc[p] = "clean" /\ Len(unlinked[p]) < Len(Queue(p))
     /\ (pc'[p] # pc[p] \/ loc'[p] # loc[p] \/ unlinked'[p] # unlinked[p]))
    => LET fname == Queue(p)[Len(unlinked[p]) + 1]
       IN  \/ /\ fname \in files /\ files' = files \ {fname}
              /\ unlinked'[p] = Append(unlinked[p], fname)
              /\ pc'[p] = "clean" /\ failed'[p] = ""
           \/ /\ pc'[p] = "error" /\ failed'[p] = "unlink"
              /\ files' = files /\ unlinked'[p] = unlinked[p]

\* A run that is over (in error or done) deletes nothing more.
NoLaterDeletion(p) ==
    (Running(p) /\ pc[p] \in {"error", "done"} /\ arg'[p] = arg[p])
    => unlinked'[p] = unlinked[p]

\* C9 as stated: every queued file is deleted in queue order; a queued file
\* that is missing or cannot be deleted ends the run in error at that file
\* though all invocations succeeded, and the files queued after it are not
\* deleted and remain on disk.
C9_AsStated ==
    /\ [](\A p \in Procs : Running(p) =>
             /\ CleanupInOrder(p)
             /\ failed[p] = "unlink" => QueuedAfterFailure(p) \subseteq files)
    /\ [][\A p \in Procs : CleanupTurn(p) /\ NoLaterDeletion(p)]_vars

\* C9, amended: every queued file is deleted in queue order (the six index
\* files when clean_index is set, then the '.unsorted.bam' intermediate when
\* sort is set); a queued file that is missing or cannot be deleted ends the
\* run in error at that file though all invocations succeeded, and the run
\* deletes none of the files queued after it, then or later: each of them is
\* on disk unless another run has deleted it.
C9_CleanupOrderAndFailure ==
    /\ [](\A p \in Procs : Running(p) =>
             /\ CleanupInOrder(p)
             /\ failed[p] = "unlink" =>
                   \A fname \in QueuedAfterFailure(p) :
                       /\ fname \notin Range(unlinked[p])
                       /\ \/ fname \in files
                          \/ \E q \in Procs \ {p} : fname \in Range(unlinked[q]))
    /\ [][\A p \in Procs : CleanupTurn(p) /\ NoLaterDeletion(p)]_vars

\* Two runs on one prefix, both sorting and cleaning the index, both in error
\* in the cleanup: caller 2 deleted the first index file and could not delete
\* the second, which is on disk; caller 1 then found the first one missing
\* and deleted nothing.  The rest of both queues is on disk.
C9_Witness ==
    /\ Running(1) /\ Running(2) /\ arg[1].out_prefix = arg[2].out_prefix
    /\ arg[1].sort /\ arg[1].clean_index /\ arg[2].sort /\ arg[2].clean_index
    /\ failed[1] = "unlink" /\ failed[2] = "unlink"
    /\ Completed(1) /\ Completed(2)
    /\ unlinked[2] = <<Queue(2)[1]>> /\ Queue(2)[2] \in files
    /\ unlinked[1] = <<>> /\ Queue(1)[1] \notin files
    /\ QueuedAfterFailure(1) \subseteq files

\* ------------------------------------------------------ claims of SpecFilter

\* Whether the bit of value v is set in FLAG f.
Bit(f, v) == (f \div v) % 2 = 1

\* At least one of the two unmapped bits is clear.
OneMateMapped(f) == ~Bit(f, 4) \/ ~Bit(f, 8)

\* C6: with remove_both_unmapped the filter stage keeps a record iff flag bit
\* 4 or flag bit 8 is clear, whatever the other bits: a pair with both mates
\* unmapped is dropped whole, a pair with exactly one mate unmapped is kept
\* whole; without it no filter stage is composed and every record reaches the
\* conversion stage.
C6_FilterKeepsUnlessBothUnmapped ==
    pipe.pc = "done" =>
        IF pipe.filter
        THEN /\ pipe.stages = <<"bowtie2", "awk", "samtools view">>
             /\ pipe.out = SelectSeq(pipe.in, OneMateMapped)
             /\ (\A i \in 1..2 : Bit(pipe.in[i], 4) /\ Bit(pipe.in[i], 8)) => pipe.out = <<>>
             /\ (/\ Bit(pipe.in[1], 4) /\ ~Bit(pipe.in[1], 8)
                 /\ ~Bit(pipe.in[2], 4) /\ Bit(pipe.in[2], 8)) => pipe.out = pipe.in
             /\ (/\ ~Bit(pipe.in[1], 4) /\ Bit(pipe.in[1], 8)
                 /\ Bit(pipe.in[2], 4) /\ ~Bit(pipe.in[2], 8)) => pipe.out = pipe.in
        ELSE /\ pipe.stages = <<"bowtie2", "samtools view">>
             /\ pipe.out = pipe.in

\* ------------------------------------------------------- claims of SpecScore

\* The AS value of a record that has one, else zero.
AsOf(sam) == IF \E v \in AsValues : <<"AS", v>> \in sam
             THEN CHOOSE v \in AsValues : <<"AS", v>> \in sam ELSE 0

RECURSIVE SumAs(_)
SumAs(recs) == IF recs = <<>> THEN 0
               ELSE SumAs(SubSeq(recs, 1, Len(recs) - 1)) + AsOf(recs[Len(recs)])

\* C7: get_total_alignment_score returns the sum of the AS values of the
\* records that carry the tag; a record without it adds zero and does not stop
\* the loop, and every record up to end-of-stream is visited once.
C7_TotalIsSumOfTagged ==
    /\ score.pc = "loop" => score.i <= Len(score.recs)
    /\ score.pc = "returned" =>
          /\ score.result = SumAs(score.recs)
          /\ score.i = Len(score.recs)

\* Returned over a full stream whose middle record has no AS tag.
C7_Witness ==
    /\ score.pc = "returned" /\ Len(score.recs) = MaxRecs
    /\ Opt(score.recs[1], "AS").ok /\ ~Opt(score.recs[2], "AS").ok
    /\ Opt(score.recs[3], "AS").ok
    /\ score.result = 4

\* ------------------------------------------------------- claims of SpecFastq

\* C8: sam_to_fastq names its output qname + '/1' for a first-of-pair record
\* (also when the second-of-pair flag is set too), qname + '/2' for a record
\* that is only second-of-pair, and raises Error naming the read, with no
\* sequence object and no reverse-complement, exactly when neither flag is set.
C8_PairSuffixOrError ==
    conv.pc = "done" =>
        /\ conv.sam.is_read1 =>
              conv.out.kind = "fastq" /\ conv.out.id = conv.sam.qname \o "/1"
        /\ (~conv.sam.is_read1 /\ conv.sam.is_read2) =>
              conv.out.kind = "fastq" /\ conv.out.id = conv.sam.qname \o "/2"
        /\ conv.out.kind = "error" <=> (~conv.sam.is_read1 /\ ~conv.sam.is_read2)
        /\ conv.out.kind = "error" =>
              /\ conv.out.msg = "Read " \o conv.sam.qname
                    \o " must be first or second of pair according to flag. Cannot continue"
              /\ conv.out.id = "" /\ conv.out.seq = <<>> /\ conv.out.qual = <<>>
              /\ ~conv.out.revcomped

\* A reverse-strand record with neither pair flag set was given: the Error
\* names the read and nothing was reverse-complemented.
C8_Witness ==
    /\ conv.pc = "done" /\ ~conv.sam.is_read1 /\ ~conv.sam.is_read2
    /\ conv.sam.is_reverse /\ conv.sam.qname = "readA" /\ Len(conv.sam.seq) = MaxSeqLen
    /\ conv.out.kind = "error" /\ ~conv.out.revcomped
    /\ conv.out.msg =
          "Read readA must be first or second of pair according to flag. Cannot continue"

====
